---------------------------- MODULE Spec2Model ----------------------------
(***************************************************************************)
(* Model of the intrusive doubly linked list of src/dlist.h together with  *)
(* the container arithmetic of src/offset.h.                               *)
(*                                                                         *)
(* Pointers are machine words, written as integers.  A word is read as a   *)
(* 32-bit two's-complement number, so that 0xdeadbeef is -559038737 and    *)
(* the word below NULL, 0xffffffff, is -1.  No address used here comes     *)
(* near the wrap-around of that reading, so pointer subtraction is integer *)
(* subtraction.                                                            *)
(***************************************************************************)
EXTENDS Integers, Sequences, FiniteSets

\* ----------------------------------------------------------------- bounds

\* Number of caller-allocated records.
NumNodes == 3

\* Largest byte offset of the embedded link field tried by a binding.
MaxOffset == 1

\* Distance between two record addresses on the caller's heap.
Stride == 8

\* Number of records whose link fields, with head and tail, are given every
\* assignment in the runs of check on hand-built structures.
CheckNodes == 2

\* ------------------------------------------------------------- constants

NULL == 0

\* (dlist_node_t*) 0xdeadbeef, the magic written by dlist_destroy.
POISON == -559038737

\* A non-null word that is the address of no node: what heap garbage, or
\* arithmetic below NULL, looks like.
WILD == NULL - 1

VARIABLES
  off,      \* OFFSET(type, metaname) of the record type bound by DEFINE_DLIST
  head,     \* root->head
  tail,     \* root->tail
  next,     \* next[a]: the next field of the link node at address a
  prev,     \* prev[a]: the prev field of the link node at address a
  linked,   \* caller's bookkeeping: link nodes inserted and not yet taken out
  life,     \* "live" after init; "destroyed" after a successful destroy;
            \* "used" once a destroyed handle has been used and the call
            \* returned; "reinit" after the init of a used handle
  status,   \* "ok" while the process runs; otherwise how it ended
  op,       \* name of the last operation called
  arg,      \* its record argument (NULL when it takes none)
  ret,      \* value returned by the untyped dlist_* function (NULL if void)
  tret,     \* value returned by the typed dlist_<type>_* wrapper
  visited,  \* accumulator returned by the last fold: from an empty initial
            \* accumulator, the records passed to the reducer, in order
  mode,     \* round-trip runs: <<insert end, remove op>>; <<>> otherwise
  ins,      \* round-trip runs: records inserted, in order
  outs,     \* round-trip runs: records returned, in order
  fin,      \* fold runs: <<k, init>> given to the last fold; <<>> otherwise
  guarded,  \* threaded runs: TRUE when the callers wrap each call in a mutex
  mutex,    \* threaded runs: the thread holding the mutex, NULL when free
  thr       \* threaded runs: per thread, the call it is in and its locals

\* The variables of the scenario specifications.
round == <<mode, ins, outs, fin, guarded, mutex, thr>>
vars  == <<off, head, tail, next, prev, linked, life, status,
           op, arg, ret, tret, visited, mode, ins, outs,
           fin, guarded, mutex, thr>>

\* ------------------------------------------------------------ the heap

\* Addresses of the caller's records (malloc results).
Records == {Stride * i : i \in 1..NumNodes}

\* &(data->metaname): the address of the link node embedded in record data.
LinkOf(data) == data + off

\* Addresses of the link nodes.
LinkAddrs == {LinkOf(r) : r \in Records}

\* OFFSET(type, name) is ((type*)0)->name taken as an integer: the values it
\* may have over the record types a caller binds.
Offsets == 0..MaxOffset

\* GET_CONTAINER(var, con_type, name): (char*)var - OFFSET(con_type, name).
GET_CONTAINER(var, o) == var - o

\* GET_CONTAINER applied to the result of an untyped call.  Arithmetic on a
\* null pointer with a non-zero offset is undefined: a build yields the
\* wrapped difference, or folds the expression to null.
ContainerOfResult(var, o) ==
  IF var = NULL /\ o # 0 THEN {GET_CONTAINER(var, o), NULL}
  ELSE {GET_CONTAINER(var, o)}

\* What a malloc'ed, never written pointer field may hold.
Uninit == {NULL, WILD}

\* Dereferencing p is defined only when p is the address of a node.
Valid(p) == p \in LinkAddrs

\* How the process ends when it dereferences a pointer that is no node
\* (undefined behaviour): a fault, or anything else.
WildOutcomes == {"segv", "undefined"}

\* ------------------------------------------------- untyped engine (dlist.h)

\* The result of one untyped call: how it ended, the memory it left and the
\* value it returned.  st is "ok", "panic", "assert", "wild" (a dereference of
\* a non-node pointer) or "diverge" (a loop that never ends).
R(st, h, t, nx, pv, rv) ==
  [st |-> st, head |-> h, tail |-> t, next |-> nx, prev |-> pv, ret |-> rv]

Mem == [head |-> head, tail |-> tail, next |-> next, prev |-> prev]

\* panic(): the abort primitive; it does not return.
panic(m) == R("panic", m.head, m.tail, m.next, m.prev, NULL)

dlist_init(m) == R("ok", NULL, NULL, m.next, m.prev, NULL)

\* Faulty variant: destroy without the emptiness tests.
dlist_destroy_unguarded(m) == R("ok", POISON, POISON, m.next, m.prev, NULL)

\* Faulty variant: destroy that poisons head only.
dlist_destroy_head_only(m) ==
  IF m.head # NULL THEN panic(m)
  ELSE IF m.tail # NULL THEN panic(m)
  ELSE R("ok", POISON, m.tail, m.next, m.prev, NULL)

dlist_destroy(m) ==
  IF m.head # NULL THEN panic(m)
  ELSE IF m.tail # NULL THEN panic(m)
  ELSE R("ok", POISON, POISON, m.next, m.prev, NULL)

\* Faulty variant: enqueue that leaves root->head alone on a non-empty list.
dlist_enqueue_keeps_head(m, data) ==
  LET pv1      == [m.prev EXCEPT ![data] = NULL]
      old_head == m.head
      nx1      == [m.next EXCEPT ![data] = old_head]
  IN  IF old_head = NULL
      THEN R("ok", data, data, nx1, pv1, NULL)
      ELSE R("ok", m.head, m.tail, nx1, pv1, NULL)

\* Faulty variant: enqueue that does not write data->prev.
dlist_enqueue_keeps_prev(m, data) ==
  LET old_head == m.head
      nx1      == [m.next EXCEPT ![data] = old_head]
  IN  IF old_head = NULL
      THEN IF m.tail # NULL
           THEN R("assert", m.head, m.tail, nx1, m.prev, NULL)
           ELSE R("ok", data, data, nx1, m.prev, NULL)
      ELSE IF m.prev[old_head] # NULL
           THEN R("assert", m.head, m.tail, nx1, m.prev, NULL)
           ELSE R("ok", data, m.tail, nx1,
                  [m.prev EXCEPT ![old_head] = data], NULL)

dlist_enqueue(m, data) ==
  LET pv1      == [m.prev EXCEPT ![data] = NULL]
      old_head == m.head
      nx1      == [m.next EXCEPT ![data] = old_head]
  IN  IF old_head = NULL
      THEN IF m.tail # NULL
           THEN R("assert", m.head, m.tail, nx1, pv1, NULL)
           ELSE R("ok", data, data, nx1, pv1, NULL)
      ELSE IF ~Valid(old_head)
           THEN R("wild", m.head, m.tail, nx1, pv1, NULL)
           ELSE IF pv1[old_head] # NULL
                THEN R("assert", m.head, m.tail, nx1, pv1, NULL)
                ELSE R("ok", data, m.tail, nx1,
                       [pv1 EXCEPT ![old_head] = data], NULL)

\* Faulty variant: pushback that inserts at the front.
dlist_pushback_front(m, data) == dlist_enqueue(m, data)

\* Faulty variant: pushback that does not write data->prev.
dlist_pushback_no_prev(m, data) ==
  LET nx1      == [m.next EXCEPT ![data] = NULL]
      old_tail == m.tail
  IN  IF old_tail = NULL
      THEN IF m.head # NULL
           THEN R("assert", m.head, m.tail, nx1, m.prev, NULL)
           ELSE R("ok", data, data, nx1, m.prev, NULL)
      ELSE IF nx1[old_tail] # NULL
           THEN R("assert", m.head, m.tail, nx1, m.prev, NULL)
           ELSE R("ok", m.head, data,
                  [nx1 EXCEPT ![old_tail] = data], m.prev, NULL)

dlist_pushback(m, data) ==
  LET nx1      == [m.next EXCEPT ![data] = NULL]
      old_tail == m.tail
      pv1      == [m.prev EXCEPT ![data] = old_tail]
  IN  IF old_tail = NULL
      THEN IF m.head # NULL
           THEN R("assert", m.head, m.tail, nx1, pv1, NULL)
           ELSE R("ok", data, data, nx1, pv1, NULL)
      ELSE IF ~Valid(old_tail)
           THEN R("wild", m.head, m.tail, nx1, pv1, NULL)
           ELSE IF nx1[old_tail] # NULL
                THEN R("assert", m.head, m.tail, nx1, pv1, NULL)
                ELSE R("ok", m.head, data,
                       [nx1 EXCEPT ![old_tail] = data], pv1, NULL)

dlist_push(m, data) == dlist_enqueue(m, data)

\* Faulty variant: dequeue that does not clear the new tail's next.
dlist_dequeue_stale_next(m) ==
  IF m.tail = NULL THEN R("ok", m.head, m.tail, m.next, m.prev, NULL)
  ELSE LET retnode == m.tail
           tail1   == m.prev[retnode]
       IN  IF m.head = retnode
           THEN R("ok", NULL, tail1, m.next, m.prev, retnode)
           ELSE R("ok", m.head, tail1, m.next, m.prev, retnode)

\* Faulty variant: dequeue without the test for an empty list.
dlist_dequeue_unguarded(m) ==
  LET retnode == m.tail
  IN  IF ~Valid(retnode)
      THEN R("wild", m.head, m.tail, m.next, m.prev, NULL)
      ELSE LET tail1 == m.prev[retnode]
           IN  IF m.head = retnode
               THEN R("ok", NULL, tail1, m.next, m.prev, retnode)
               ELSE IF ~Valid(tail1)
                    THEN R("wild", m.head, tail1, m.next, m.prev, NULL)
                    ELSE R("ok", m.head, tail1,
                           [m.next EXCEPT ![tail1] = NULL], m.prev, retnode)

dlist_dequeue(m) ==
  IF m.tail = NULL THEN R("ok", m.head, m.tail, m.next, m.prev, NULL)
  ELSE LET retnode == m.tail
       IN  IF ~Valid(retnode)
           THEN R("wild", m.head, m.tail, m.next, m.prev, NULL)
           ELSE LET tail1 == m.prev[retnode]
                IN  IF m.head = retnode
                    THEN R("ok", NULL, tail1, m.next, m.prev, retnode)
                    ELSE IF ~Valid(tail1)
                         THEN R("wild", m.head, tail1, m.next, m.prev, NULL)
                         ELSE R("ok", m.head, tail1,
                                [m.next EXCEPT ![tail1] = NULL], m.prev,
                                retnode)

\* Faulty variant: pop that does not clear root->tail with the last node.
dlist_pop_keeps_tail(m) ==
  IF m.head = NULL THEN R("ok", m.head, m.tail, m.next, m.prev, NULL)
  ELSE LET retnode == m.head
           head1   == m.next[retnode]
       IN  IF m.tail = retnode
           THEN R("ok", head1, m.tail, m.next, m.prev, retnode)
           ELSE R("ok", head1, m.tail, m.next,
                  [m.prev EXCEPT ![head1] = NULL], retnode)

\* Faulty variant: pop that does not clear the new head's prev.
dlist_pop_stale_prev(m) ==
  IF m.head = NULL THEN R("ok", m.head, m.tail, m.next, m.prev, NULL)
  ELSE LET retnode == m.head
           head1   == m.next[retnode]
       IN  IF m.tail = retnode
           THEN R("ok", head1, NULL, m.next, m.prev, retnode)
           ELSE R("ok", head1, m.tail, m.next, m.prev, retnode)

\* Faulty variant: pop that clears the link fields of the node it returns.
dlist_pop_scrub(m) ==
  IF m.head = NULL THEN R("ok", m.head, m.tail, m.next, m.prev, NULL)
  ELSE LET retnode == m.head
           head1   == m.next[retnode]
           nx1     == [m.next EXCEPT ![retnode] = NULL]
       IN  IF m.tail = retnode
           THEN R("ok", head1, NULL, nx1, m.prev, retnode)
           ELSE R("ok", head1, m.tail, nx1,
                  [m.prev EXCEPT ![head1] = NULL], retnode)

dlist_pop(m) ==
  IF m.head = NULL THEN R("ok", m.head, m.tail, m.next, m.prev, NULL)
  ELSE LET retnode == m.head
       IN  IF ~Valid(retnode)
           THEN R("wild", m.head, m.tail, m.next, m.prev, NULL)
           ELSE LET head1 == m.next[retnode]
                IN  IF m.tail = retnode
                    THEN R("ok", head1, NULL, m.next, m.prev, retnode)
                    ELSE IF ~Valid(head1)
                         THEN R("wild", head1, m.tail, m.next, m.prev, NULL)
                         ELSE R("ok", head1, m.tail, m.next,
                                [m.prev EXCEPT ![head1] = NULL], retnode)

\* Faulty variant: remove that does not set the successor's prev.
dlist_remove_no_backlink(m, data) ==
  LET dprev == m.prev[data]
      dnext == m.next[data]
      nx1   == IF dprev # NULL THEN [m.next EXCEPT ![dprev] = dnext] ELSE m.next
      head1 == IF dprev = NULL THEN dnext ELSE m.head
  IN  IF dnext # NULL THEN R("ok", head1, m.tail, nx1, m.prev, NULL)
      ELSE R("ok", head1, dprev, nx1, m.prev, NULL)

\* Faulty variant: remove that does not move root->head off a removed head.
dlist_remove_keeps_head(m, data) ==
  LET dprev == m.prev[data]
      dnext == m.next[data]
      nx1   == IF dprev # NULL THEN [m.next EXCEPT ![dprev] = dnext] ELSE m.next
  IN  IF dnext # NULL
      THEN R("ok", m.head, m.tail, nx1, [m.prev EXCEPT ![dnext] = dprev], NULL)
      ELSE R("ok", m.head, dprev, nx1, m.prev, NULL)

dlist_remove(m, data) ==
  LET dprev == m.prev[data]
      dnext == m.next[data]
      \* first if/else: unlink data from its predecessor, or from head
      st1   == IF dprev # NULL
               THEN IF Valid(dprev) THEN "ok" ELSE "wild"
               ELSE IF m.head = data THEN "ok" ELSE "assert"
      nx1   == IF dprev # NULL /\ Valid(dprev)
               THEN [m.next EXCEPT ![dprev] = dnext] ELSE m.next
      head1 == IF dprev = NULL /\ m.head = data THEN dnext ELSE m.head
      \* second if/else reads data->next and data->prev again
      dnext2 == nx1[data]
  IN  IF st1 # "ok" THEN R(st1, m.head, m.tail, m.next, m.prev, NULL)
      ELSE IF dnext2 # NULL
           THEN IF ~Valid(dnext2)
                THEN R("wild", head1, m.tail, nx1, m.prev, NULL)
                ELSE R("ok", head1, m.tail, nx1,
                       [m.prev EXCEPT ![dnext2] = dprev], NULL)
           ELSE IF m.tail # data
                THEN R("assert", head1, m.tail, nx1, m.prev, NULL)
                ELSE R("ok", head1, dprev, nx1, m.prev, NULL)

dlist_head(m) == R("ok", m.head, m.tail, m.next, m.prev, m.head)

dlist_tail(m) == R("ok", m.head, m.tail, m.next, m.prev, m.tail)

\* Iterations after which a loop over the nodes is known never to end: a
\* next- or prev-chain that is longer than the heap has nodes repeats itself.
LoopFuel == NumNodes + 1

\* Faulty variant of CheckLoop: without the comparison of ptr->prev with
\* the node before it.
RECURSIVE CheckLoop_no_prev(_, _, _, _)
CheckLoop_no_prev(m, ptr, last_ptr, fuel) ==
  IF ptr = NULL THEN (IF last_ptr = m.tail THEN "ok" ELSE "assert")
  ELSE IF ~Valid(ptr) THEN "wild"
  ELSE IF last_ptr # NULL /\ m.next[last_ptr] # ptr THEN "assert"
  ELSE IF fuel = 0 THEN "diverge"
  ELSE CheckLoop_no_prev(m, m.next[ptr], ptr, fuel - 1)

\* Faulty variant of CheckLoop: without the comparison of the last node
\* with root->tail.
RECURSIVE CheckLoop_no_tail(_, _, _, _)
CheckLoop_no_tail(m, ptr, last_ptr, fuel) ==
  IF ptr = NULL THEN "ok"
  ELSE IF ~Valid(ptr) THEN "wild"
  ELSE IF last_ptr # NULL /\ m.next[last_ptr] # ptr THEN "assert"
  ELSE IF last_ptr # NULL /\ last_ptr # m.prev[ptr] THEN "assert"
  ELSE IF last_ptr = NULL /\ m.prev[ptr] # NULL THEN "assert"
  ELSE IF fuel = 0 THEN "diverge"
  ELSE CheckLoop_no_tail(m, m.next[ptr], ptr, fuel - 1)

\* The for loop of dlist_check from the iteration that tests ptr, and the
\* assertion after it.
RECURSIVE CheckLoop(_, _, _, _)
CheckLoop(m, ptr, last_ptr, fuel) ==
  IF ptr = NULL THEN (IF last_ptr = m.tail THEN "ok" ELSE "assert")
  ELSE IF ~Valid(ptr) THEN "wild"
  ELSE IF last_ptr # NULL /\ m.next[last_ptr] # ptr THEN "assert"
  ELSE IF last_ptr # NULL /\ last_ptr # m.prev[ptr] THEN "assert"
  ELSE IF last_ptr = NULL /\ m.prev[ptr] # NULL THEN "assert"
  ELSE IF fuel = 0 THEN "diverge"
  ELSE CheckLoop(m, m.next[ptr], ptr, fuel - 1)

dlist_check(m) ==
  R(CheckLoop(m, m.head, NULL, LoopFuel), m.head, m.tail, m.next, m.prev, NULL)

\* The reducer handed to the folds, in the manner of is_5 of the unit test:
\* a function of the record n, the accumulator last and the flag *term.  It
\* returns last with n appended and sets *term when that accumulator holds
\* k words, which from an empty initial accumulator is its k-th invocation
\* (never when k = 0); otherwise it leaves *term as it found it.  It does
\* not read the record.  Yields <<accumulator returned, *term afterwards>>.
func(k, n, last, term) ==
  <<Append(last, n), IF Len(last) + 1 = k THEN 1 ELSE term>>

\* Faulty variant of FoldLoop: terminate is not cleared before the call and
\* holds a non-zero byte.
RECURSIVE FoldLoop_uncleared(_, _, _, _, _, _)
FoldLoop_uncleared(ptr, step, o, k, result, fuel) ==
  IF ptr = NULL THEN <<"ok", result>>
  ELSE LET terminate == 1
           r == func(k, GET_CONTAINER(ptr, o), result, terminate)
       IN  IF r[2] # 0 THEN <<"ok", r[1]>>
           ELSE IF ~Valid(ptr) THEN <<"wild", r[1]>>
           ELSE IF fuel = 0 THEN <<"diverge", r[1]>>
           ELSE FoldLoop_uncleared(step[ptr], step, o, k, r[1], fuel - 1)

\* Faulty variant of FoldLoop: on termination the accumulator of before the
\* terminating invocation is returned.
RECURSIVE FoldLoop_stale_result(_, _, _, _, _, _)
FoldLoop_stale_result(ptr, step, o, k, result, fuel) ==
  IF ptr = NULL THEN <<"ok", result>>
  ELSE LET terminate == 0
           r == func(k, GET_CONTAINER(ptr, o), result, terminate)
       IN  IF r[2] # 0 THEN <<"ok", result>>
           ELSE IF ~Valid(ptr) THEN <<"wild", r[1]>>
           ELSE IF fuel = 0 THEN <<"diverge", r[1]>>
           ELSE FoldLoop_stale_result(step[ptr], step, o, k, r[1], fuel - 1)

\* The loop shared by the generated foldr (start = root->head, step = next)
\* and foldl (start = root->tail, step = prev): terminate is cleared, the
\* reducer is called with the record of ptr, the accumulator and &terminate,
\* its value becomes the accumulator, and the loop is left when terminate
\* is set.  The step to the following node reads ptr's link field.
\* Yields <<how the fold ended, the accumulator it returned>>.
RECURSIVE FoldLoop(_, _, _, _, _, _)
FoldLoop(ptr, step, o, k, result, fuel) ==
  IF ptr = NULL THEN <<"ok", result>>
  ELSE LET terminate == 0
           r == func(k, GET_CONTAINER(ptr, o), result, terminate)
       IN  IF r[2] # 0 THEN <<"ok", r[1]>>
           ELSE IF ~Valid(ptr) THEN <<"wild", r[1]>>
           ELSE IF fuel = 0 THEN <<"diverge", r[1]>>
           ELSE FoldLoop(step[ptr], step, o, k, r[1], fuel - 1)

\* Faulty variant of dlist_T_foldl: walks from the head along next.
dlist_T_foldl_forward(m, o, k, init) ==
  FoldLoop(m.head, m.next, o, k, init, LoopFuel)

dlist_T_foldr(m, o, k, init) == FoldLoop(m.head, m.next, o, k, init, LoopFuel)

dlist_T_foldl(m, o, k, init) == FoldLoop(m.tail, m.prev, o, k, init, LoopFuel)

\* ------------------------------------------ typed interface (DEFINE_DLIST)

\* The caller's view of the handle once a call named name has returned.
LifeAfter(name) ==
  IF name = "init" THEN (IF life = "used" THEN "reinit" ELSE "live")
  ELSE IF name = "destroy" THEN "destroyed"
  ELSE IF life = "destroyed" THEN "used"
  ELSE life

\* One call of an operation named name on record a: r is the result of the
\* untyped function it delegates to, tr the value the typed wrapper returns,
\* vis the records a fold handed to its reducer, lk the caller's bookkeeping
\* once the call has returned.  A process that has ended makes no further
\* call, and a run is followed no further than the init of a used handle.
Call(name, a, r, tr, vis, lk) ==
  /\ status = "ok"
  /\ life # "reinit"
  /\ op' = name
  /\ arg' = a
  /\ head' = r.head
  /\ tail' = r.tail
  /\ next' = r.next
  /\ prev' = r.prev
  /\ ret' = r.ret
  /\ status' \in (IF r.st = "wild" THEN WildOutcomes ELSE {r.st})
  /\ tret' = (IF r.st = "ok" THEN tr ELSE NULL)
  /\ visited' = vis
  /\ linked' = (IF r.st = "ok" THEN lk ELSE linked)
  /\ life' = (IF r.st = "ok" THEN LifeAfter(name) ELSE life)
  /\ off' = off

\* A caller inserts a record only while it is unlinked.
MayInsert(data) == data \in Records /\ LinkOf(data) \notin linked

\* A caller removes only a record linked in this handle; on a destroyed
\* handle no record is, and any remove is a use after destroy.
MayRemove(data) ==
  data \in Records /\ (life = "live" => LinkOf(data) \in linked)

dlist_T_init ==
  /\ linked = {}
  /\ Call("init", NULL, dlist_init(Mem), NULL, <<>>, linked)

dlist_T_destroy ==
  Call("destroy", NULL, dlist_destroy(Mem), NULL, <<>>, linked)

dlist_T_check ==
  Call("check", NULL, dlist_check(Mem), NULL, <<>>, linked)

dlist_T_enqueue(data) ==
  /\ MayInsert(data)
  /\ Call("enqueue", data, dlist_enqueue(Mem, LinkOf(data)), NULL, <<>>,
          linked \cup {LinkOf(data)})

dlist_T_pushback(data) ==
  /\ MayInsert(data)
  /\ Call("pushback", data, dlist_pushback(Mem, LinkOf(data)), NULL, <<>>,
          linked \cup {LinkOf(data)})

dlist_T_push(data) ==
  /\ MayInsert(data)
  /\ Call("push", data, dlist_push(Mem, LinkOf(data)), NULL, <<>>,
          linked \cup {LinkOf(data)})

dlist_T_dequeue ==
  LET r == dlist_dequeue(Mem)
  IN  \E tr \in ContainerOfResult(r.ret, off) :
        Call("dequeue", NULL, r, tr, <<>>, linked \ {r.ret})

dlist_T_pop ==
  LET r == dlist_pop(Mem)
  IN  \E tr \in ContainerOfResult(r.ret, off) :
        Call("pop", NULL, r, tr, <<>>, linked \ {r.ret})

dlist_T_remove(data) ==
  /\ MayRemove(data)
  /\ Call("remove", data, dlist_remove(Mem, LinkOf(data)), NULL, <<>>,
          linked \ {LinkOf(data)})

dlist_T_head ==
  LET r == dlist_head(Mem)
  IN  \E tr \in ContainerOfResult(r.ret, off) :
        Call("head", NULL, r, tr, <<>>, linked)

dlist_T_tail ==
  LET r == dlist_tail(Mem)
  IN  \E tr \in ContainerOfResult(r.ret, off) :
        Call("tail", NULL, r, tr, <<>>, linked)

\* Values of k tried for the reducer: 0 (never terminates) and every position.
Ks == 0..NumNodes

\* dlist_<type>_foldr(root, func, init) with the reducer func(k, ...).
FoldrFrom(k, init) ==
  LET f == dlist_T_foldr(Mem, off, k, init)
  IN  Call("foldr", NULL, R(f[1], head, tail, next, prev, NULL), NULL, f[2],
           linked)

FoldlFrom(k, init) ==
  LET f == dlist_T_foldl(Mem, off, k, init)
  IN  Call("foldl", NULL, R(f[1], head, tail, next, prev, NULL), NULL, f[2],
           linked)

\* The folds as the unit test calls them, with the initial accumulator 0.
Foldr(k) == FoldrFrom(k, <<>>)

Foldl(k) == FoldlFrom(k, <<>>)

\* ------------------------------------------------------- specifications

\* The state after dlist_<type>_init on a fresh handle: the records are
\* allocated, their link fields never written.
Fresh ==
  /\ off \in Offsets
  /\ head = NULL
  /\ tail = NULL
  /\ next \in [LinkAddrs -> Uninit]
  /\ prev \in [LinkAddrs -> Uninit]
  /\ linked = {}
  /\ life = "live"
  /\ status = "ok"
  /\ op = "init"
  /\ arg = NULL
  /\ ret = NULL
  /\ tret = NULL
  /\ visited = <<>>
  /\ ins = <<>>
  /\ outs = <<>>
  /\ fin = <<>>

\* The two threads of the threaded runs.
Threads == {1, 2}

\* A thread that is in no call.
Idle == [pc |-> "idle", fn |-> "none", data |-> NULL, old |-> NULL]

\* Runs of a single caller: no thread is ever inside a call.
SingleCaller ==
  /\ guarded = FALSE
  /\ mutex = NULL
  /\ thr = [t \in Threads |-> Idle]

Init == Fresh /\ mode = <<>> /\ SingleCaller

\* A handle is usable between init and destroy.
Live == life = "live"

\* The operations as a caller who keeps the contract uses them: on a live
\* handle, and init again once the handle is destroyed.
DoInit     == dlist_T_init /\ UNCHANGED round
DoDestroy  == Live /\ dlist_T_destroy /\ UNCHANGED round
DoCheck    == Live /\ dlist_T_check /\ UNCHANGED round
DoEnqueue  == Live /\ \E data \in Records : dlist_T_enqueue(data) /\ UNCHANGED round
DoPushback == Live /\ \E data \in Records : dlist_T_pushback(data) /\ UNCHANGED round
DoPush     == Live /\ \E data \in Records : dlist_T_push(data) /\ UNCHANGED round
DoDequeue  == Live /\ dlist_T_dequeue /\ UNCHANGED round
DoPop      == Live /\ dlist_T_pop /\ UNCHANGED round
DoRemove   == Live /\ \E data \in Records : dlist_T_remove(data) /\ UNCHANGED round
DoHead     == Live /\ dlist_T_head /\ UNCHANGED round
DoTail     == Live /\ dlist_T_tail /\ UNCHANGED round
DoFoldr    == Live /\ \E k \in Ks : Foldr(k) /\ UNCHANGED round
DoFoldl    == Live /\ \E k \in Ks : Foldl(k) /\ UNCHANGED round

Next ==
  \/ DoInit
  \/ DoDestroy
  \/ DoCheck
  \/ DoEnqueue
  \/ DoPushback
  \/ DoPush
  \/ DoDequeue
  \/ DoPop
  \/ DoRemove
  \/ DoHead
  \/ DoTail
  \/ DoFoldr
  \/ DoFoldl

Spec == Init /\ [][Next]_vars

\* The same operations called on a handle that was destroyed and not
\* initialised again.
Dead == life \in {"destroyed", "used"}

UseDestroy  == Dead /\ dlist_T_destroy /\ UNCHANGED round
UseCheck    == Dead /\ dlist_T_check /\ UNCHANGED round
UseEnqueue  == Dead /\ \E data \in Records : dlist_T_enqueue(data) /\ UNCHANGED round
UsePushback == Dead /\ \E data \in Records : dlist_T_pushback(data) /\ UNCHANGED round
UsePush     == Dead /\ \E data \in Records : dlist_T_push(data) /\ UNCHANGED round
UseDequeue  == Dead /\ dlist_T_dequeue /\ UNCHANGED round
UsePop      == Dead /\ dlist_T_pop /\ UNCHANGED round
UseRemove   == Dead /\ \E data \in Records : dlist_T_remove(data) /\ UNCHANGED round
UseHead     == Dead /\ dlist_T_head /\ UNCHANGED round
UseTail     == Dead /\ dlist_T_tail /\ UNCHANGED round
UseFoldr    == Dead /\ \E k \in Ks : Foldr(k) /\ UNCHANGED round
UseFoldl    == Dead /\ \E k \in Ks : Foldl(k) /\ UNCHANGED round

NextMisuse ==
  \/ Next
  \/ UseDestroy
  \/ UseCheck
  \/ UseEnqueue
  \/ UsePushback
  \/ UsePush
  \/ UseDequeue
  \/ UsePop
  \/ UseRemove
  \/ UseHead
  \/ UseTail
  \/ UseFoldr
  \/ UseFoldl

SpecMisuse == Init /\ [][NextMisuse]_vars

\* Round trips: on a fresh handle, insertions at one end (front: enqueue or
\* push; back: pushback) of records not yet inserted, followed by as many
\* removals with one operation.
Modes == {<<e, r>> : e \in {"front", "back"}, r \in {"pop", "dequeue"}}

InitRound == Fresh /\ mode \in Modes /\ SingleCaller

Inserting == outs = <<>>

RoundInsert(data) ==
  /\ Inserting
  /\ ins' = Append(ins, data)
  /\ UNCHANGED <<mode, outs, fin, guarded, mutex, thr>>

RoundEnqueue ==
  mode[1] = "front" /\ \E data \in Records : dlist_T_enqueue(data) /\ RoundInsert(data)

RoundPush ==
  mode[1] = "front" /\ \E data \in Records : dlist_T_push(data) /\ RoundInsert(data)

RoundPushback ==
  mode[1] = "back" /\ \E data \in Records : dlist_T_pushback(data) /\ RoundInsert(data)

RoundRemove ==
  /\ Len(outs) < Len(ins)
  /\ outs' = Append(outs, tret')
  /\ UNCHANGED <<mode, ins, fin, guarded, mutex, thr>>

RoundPop == mode[2] = "pop" /\ dlist_T_pop /\ RoundRemove

RoundDequeue == mode[2] = "dequeue" /\ dlist_T_dequeue /\ RoundRemove

NextRound ==
  \/ RoundEnqueue
  \/ RoundPush
  \/ RoundPushback
  \/ RoundPop
  \/ RoundDequeue

SpecRound == InitRound /\ [][NextRound]_vars

\* Fold runs: a caller builds a list with the mutating operations and then
\* folds it, with a reducer func(k, ...) from an empty or a non-empty
\* initial accumulator; fin records what the fold was given.  The fold ends
\* the run: it leaves the list as it found it.

\* Initial accumulators: the null pointer of the unit test, and one that
\* already holds a word (which is the address of no record).
Accs == {<<>>, <<WILD>>}

\* The reducer func(k, ...) started from the longest initial accumulator
\* terminates on any invocation up to the last one.
FoldKs == 0..(NumNodes + 1)

Unfolded == fin = <<>>

NoFold == fin' = <<>> /\ UNCHANGED <<mode, ins, outs, guarded, mutex, thr>>

FoldEnqueue ==
  Live /\ Unfolded /\ (\E data \in Records : dlist_T_enqueue(data)) /\ NoFold

FoldPushback ==
  Live /\ Unfolded /\ (\E data \in Records : dlist_T_pushback(data)) /\ NoFold

FoldDequeue == Live /\ Unfolded /\ dlist_T_dequeue /\ NoFold

FoldPop == Live /\ Unfolded /\ dlist_T_pop /\ NoFold

FoldRemove ==
  Live /\ Unfolded /\ (\E data \in Records : dlist_T_remove(data)) /\ NoFold

FoldFoldr ==
  /\ Live
  /\ Unfolded
  /\ \E k \in FoldKs, init \in Accs : FoldrFrom(k, init) /\ fin' = <<k, init>>
  /\ UNCHANGED <<mode, ins, outs, guarded, mutex, thr>>

FoldFoldl ==
  /\ Live
  /\ Unfolded
  /\ \E k \in FoldKs, init \in Accs : FoldlFrom(k, init) /\ fin' = <<k, init>>
  /\ UNCHANGED <<mode, ins, outs, guarded, mutex, thr>>

NextFold ==
  \/ FoldEnqueue
  \/ FoldPushback
  \/ FoldDequeue
  \/ FoldPop
  \/ FoldRemove
  \/ FoldFoldr
  \/ FoldFoldl

SpecFold == Init /\ [][NextFold]_vars

\* Runs of check on hand-built structures: head, tail and the link fields
\* of the first CheckNodes records hold any of those records' link
\* addresses or NULL; check is then called once.

CheckAddrs == {LinkOf(Stride * i) : i \in 1..CheckNodes}

Ptrs == {NULL} \cup CheckAddrs

\* The link fields of the heap, those of the records left out being NULL.
Fields ==
  {f \in [LinkAddrs -> Ptrs] : \A n \in LinkAddrs \ CheckAddrs : f[n] = NULL}

InitCheck ==
  /\ off \in Offsets
  /\ head \in Ptrs
  /\ tail \in Ptrs
  /\ next \in Fields
  /\ prev \in Fields
  /\ linked = {}
  /\ life = "live"
  /\ status = "ok"
  /\ op = "build"
  /\ arg = NULL
  /\ ret = NULL
  /\ tret = NULL
  /\ visited = <<>>
  /\ mode = <<>>
  /\ ins = <<>>
  /\ outs = <<>>
  /\ fin = <<>>
  /\ SingleCaller

CheckBuilt == op = "build" /\ dlist_T_check /\ UNCHANGED round

NextCheck == CheckBuilt

SpecCheck == InitCheck /\ [][NextCheck]_vars

\* Threaded runs: two threads insert nodes into one handle with enqueue and
\* pushback, one read or write of a field of the handle or of a node at a
\* time.  The engine takes no lock; when guarded, the callers wrap each call
\* in one mutex, as the header asks them to.  In thr[t], pc is the statement
\* thread t executes next, fn the function it is in, data its node argument
\* and old its local old_head or old_tail.

\* Faulty variant: callers that enter a call without waiting for the mutex.
MayEnter_unlocked(t) == TRUE

\* The caller's side of the mutex: a call is entered freely when the
\* callers do not lock, and otherwise when the mutex is free.
MayEnter(t) == guarded => mutex = NULL

\* The nodes some thread is inserting.
InFlight == {thr[t].data : t \in Threads} \ {NULL}

\* The variables no step of an insertion touches.
ThreadFrame == <<off, life, ret, tret, visited, mode, ins, outs, fin, guarded>>

\* Thread t moves to statement pc, its local old_head/old_tail being old.
Goto(t, pc, old) == thr' = [thr EXCEPT ![t].pc = pc, ![t].old = old]

\* Thread t calls fn on a record that is unlinked and that no other call is
\* inserting, after taking the mutex if the callers lock.
ThreadCall(t) ==
  /\ status = "ok"
  /\ thr[t].pc = "idle"
  /\ MayEnter(t)
  /\ \E fn \in {"enqueue", "pushback"}, data \in Records :
       /\ MayInsert(data)
       /\ LinkOf(data) \notin InFlight
       /\ thr' = [thr EXCEPT ![t] = [pc |-> "clear", fn |-> fn,
                                     data |-> LinkOf(data), old |-> NULL]]
  /\ mutex' = (IF guarded THEN t ELSE mutex)
  /\ UNCHANGED <<head, tail, next, prev, linked, status, op, arg>>
  /\ UNCHANGED ThreadFrame

\* data->prev = NULL (enqueue); data->next = NULL (pushback).
ThreadClear(t) ==
  /\ status = "ok"
  /\ thr[t].pc = "clear"
  /\ IF thr[t].fn = "enqueue"
     THEN prev' = [prev EXCEPT ![thr[t].data] = NULL] /\ next' = next
     ELSE next' = [next EXCEPT ![thr[t].data] = NULL] /\ prev' = prev
  /\ Goto(t, "read", NULL)
  /\ UNCHANGED <<head, tail, linked, status, op, arg, mutex>>
  /\ UNCHANGED ThreadFrame

\* old_head = root->head (enqueue); old_tail = root->tail (pushback).
ThreadRead(t) ==
  /\ status = "ok"
  /\ thr[t].pc = "read"
  /\ Goto(t, "link", IF thr[t].fn = "enqueue" THEN head ELSE tail)
  /\ UNCHANGED <<head, tail, next, prev, linked, status, op, arg, mutex>>
  /\ UNCHANGED ThreadFrame

\* data->next = old_head (enqueue); data->prev = old_tail (pushback).
ThreadLink(t) ==
  /\ status = "ok"
  /\ thr[t].pc = "link"
  /\ IF thr[t].fn = "enqueue"
     THEN next' = [next EXCEPT ![thr[t].data] = thr[t].old] /\ prev' = prev
     ELSE prev' = [prev EXCEPT ![thr[t].data] = thr[t].old] /\ next' = next
  /\ Goto(t, "assert", thr[t].old)
  /\ UNCHANGED <<head, tail, linked, status, op, arg, mutex>>
  /\ UNCHANGED ThreadFrame

\* The word the assertion of the taken branch reads: root->tail or
\* old_head->prev (enqueue), root->head or old_tail->next (pushback).
Asserted(t) ==
  IF thr[t].fn = "enqueue"
  THEN (IF thr[t].old = NULL THEN tail ELSE prev[thr[t].old])
  ELSE (IF thr[t].old = NULL THEN head ELSE next[thr[t].old])

\* if (!old) assert(!root->...); else assert(!old->...): the process is
\* aborted when the word read is not NULL.
ThreadAssert(t) ==
  /\ status = "ok"
  /\ thr[t].pc = "assert"
  /\ IF Asserted(t) = NULL
     THEN Goto(t, "join", thr[t].old) /\ status' = status
     ELSE thr' = thr /\ status' = "assert"
  /\ UNCHANGED <<head, tail, next, prev, linked, op, arg, mutex>>
  /\ UNCHANGED ThreadFrame

\* root->tail = data or old_head->prev = data (enqueue); root->head = data
\* or old_tail->next = data (pushback).
ThreadJoin(t) ==
  /\ status = "ok"
  /\ thr[t].pc = "join"
  /\ LET data == thr[t].data
         old  == thr[t].old
     IN  IF thr[t].fn = "enqueue"
         THEN IF old = NULL
              THEN tail' = data /\ UNCHANGED <<head, next, prev>>
              ELSE prev' = [prev EXCEPT ![old] = data]
                   /\ UNCHANGED <<head, tail, next>>
         ELSE IF old = NULL
              THEN head' = data /\ UNCHANGED <<tail, next, prev>>
              ELSE next' = [next EXCEPT ![old] = data]
                   /\ UNCHANGED <<head, tail, prev>>
  /\ Goto(t, "publish", thr[t].old)
  /\ UNCHANGED <<linked, status, op, arg, mutex>>
  /\ UNCHANGED ThreadFrame

\* root->head = data (enqueue); root->tail = data (pushback); the call
\* returns and the caller gives the mutex back if it took it.
ThreadPublish(t) ==
  /\ status = "ok"
  /\ thr[t].pc = "publish"
  /\ IF thr[t].fn = "enqueue"
     THEN head' = thr[t].data /\ tail' = tail
     ELSE tail' = thr[t].data /\ head' = head
  /\ linked' = linked \cup {thr[t].data}
  /\ op' = thr[t].fn
  /\ arg' = GET_CONTAINER(thr[t].data, off)
  /\ thr' = [thr EXCEPT ![t] = Idle]
  /\ mutex' = (IF guarded THEN NULL ELSE mutex)
  /\ UNCHANGED <<next, prev, status>>
  /\ UNCHANGED ThreadFrame

InitRace ==
  /\ Fresh
  /\ mode = <<>>
  /\ guarded \in BOOLEAN
  /\ mutex = NULL
  /\ thr = [t \in Threads |-> Idle]

StepCall == \E t \in Threads : ThreadCall(t)

StepClear == \E t \in Threads : ThreadClear(t)

StepRead == \E t \in Threads : ThreadRead(t)

StepLink == \E t \in Threads : ThreadLink(t)

StepAssert == \E t \in Threads : ThreadAssert(t)

StepJoin == \E t \in Threads : ThreadJoin(t)

StepPublish == \E t \in Threads : ThreadPublish(t)

NextRace ==
  \/ StepCall
  \/ StepClear
  \/ StepRead
  \/ StepLink
  \/ StepAssert
  \/ StepJoin
  \/ StepPublish

SpecRace == InitRace /\ [][NextRace]_vars

\* ------------------------------------------------------------ observers

\* The nodes met from ptr by following field f, in order, while ptr is the
\* address of a node (at most LoopFuel of them).
RECURSIVE Walk(_, _, _)
Walk(ptr, f, fuel) ==
  IF fuel = 0 \/ ~Valid(ptr) THEN <<>>
  ELSE <<ptr>> \o Walk(f[ptr], f, fuel - 1)

\* The abstract sequence S: the nodes read head to tail via next.
S == Walk(head, next, LoopFuel)

Range(q) == {q[i] : i \in 1..Len(q)}

Reverse(q) == [i \in 1..Len(q) |-> q[Len(q) + 1 - i]]

First(q) == IF q = <<>> THEN NULL ELSE q[1]

Last(q) == IF q = <<>> THEN NULL ELSE q[Len(q)]

Front(q) == SubSeq(q, 1, Len(q) - 1)

Without(q, x) == SelectSeq(q, LAMBDA y : y # x)

\* The process runs and the handle is initialised.
Usable == status = "ok" /\ life = "live"

\* ---------------------------------------------------------------- claims

\* C1: after init and after every operation the handle is all-or-nothing:
\* head is absent iff tail is absent iff the list holds no element.
C1_EmptyAllOrNothing ==
  Usable => /\ (head = NULL) <=> (tail = NULL)
            /\ (head = NULL) <=> (linked = {})
            /\ (head = NULL) <=> (S = <<>>)

\* C1 witness: a removal has just drained a list that held an element.
C1_Witness ==
  /\ Usable
  /\ op \in {"pop", "dequeue", "remove"}
  /\ ret # NULL \/ arg # NULL
  /\ head = NULL /\ tail = NULL /\ linked = {}

\* C2: every linked node agrees with its neighbours (n.next.prev = n and
\* n.prev.next = n), head has no predecessor and tail no successor.
C2_Adjacency ==
  Usable =>
    /\ \A n \in linked :
         /\ next[n] # NULL => (Valid(next[n]) /\ prev[next[n]] = n)
         /\ prev[n] # NULL => (Valid(prev[n]) /\ next[prev[n]] = n)
    /\ head # NULL => (Valid(head) /\ prev[head] = NULL)
    /\ tail # NULL => (Valid(tail) /\ next[tail] = NULL)

\* C2 witness: a third node has been pushed back behind two linked ones.
C2_Witness ==
  /\ Usable
  /\ op = "pushback"
  /\ Cardinality(linked) = 3
  /\ tail = LinkOf(arg)
  /\ prev[tail] # NULL /\ next[prev[tail]] = tail
  /\ prev[prev[tail]] = head

\* C3: the linked structure refines the sequence S: enqueue and push put the
\* node in front of S, pushback behind it, pop takes and returns the first
\* element, dequeue the last, head and tail return them and leave S alone.
C3_Step ==
  /\ op' \in {"enqueue", "push"} => S' = <<LinkOf(arg')>> \o S
  /\ op' = "pushback" => S' = S \o <<LinkOf(arg')>>
  /\ op' = "pop" =>
       /\ ret' = First(S)
       /\ S' = (IF S = <<>> THEN S ELSE Tail(S))
       /\ S # <<>> => tret' = GET_CONTAINER(First(S), off)
  /\ op' = "dequeue" =>
       /\ ret' = Last(S)
       /\ S' = (IF S = <<>> THEN S ELSE Front(S))
       /\ S # <<>> => tret' = GET_CONTAINER(Last(S), off)
  /\ op' = "head" =>
       /\ ret' = First(S) /\ S' = S
       /\ S # <<>> => tret' = GET_CONTAINER(First(S), off)
  /\ op' = "tail" =>
       /\ ret' = Last(S) /\ S' = S
       /\ S # <<>> => tret' = GET_CONTAINER(Last(S), off)

\* C3: every step of a live handle that returns is a step of the sequence S
\* as C3_Step describes it.
C3_Refinement == [][(Usable /\ status' = "ok") => C3_Step]_vars

\* C3 witness: three records pushed back in address order, then pop returned
\* the first and dequeue the last, leaving the middle one as head and tail.
C3_Witness ==
  /\ Usable
  /\ op = "dequeue"
  /\ tret = 3 * Stride
  /\ S = <<LinkOf(2 * Stride)>>
  /\ head = LinkOf(2 * Stride) /\ tail = head
  /\ next[LinkOf(Stride)] = LinkOf(2 * Stride)
  /\ prev[LinkOf(3 * Stride)] = LinkOf(2 * Stride)

RoundDone == status = "ok" /\ ins # <<>> /\ Len(outs) = Len(ins)

\* C4 as stated: N pushback insertions followed by N dequeue removals return
\* the records in the order in which they were inserted.
C4_SameOrder ==
  (mode = <<"back", "dequeue">> /\ RoundDone) => outs = ins

\* C4 as amended: N pushback insertions followed by N dequeue removals
\* return the records in the reverse of the order of insertion.
C4_ReverseOrder ==
  (mode = <<"back", "dequeue">> /\ RoundDone) => outs = Reverse(ins)

\* C4 witness: every record was pushed back and dequeue has returned them all.
C4_Witness ==
  /\ mode = <<"back", "dequeue">>
  /\ RoundDone
  /\ op = "dequeue"
  /\ Len(ins) = NumNodes

\* C5: N enqueue or push insertions followed by N pop removals return the
\* records in reverse insertion order and leave the list empty.
C5_Lifo ==
  (mode = <<"front", "pop">> /\ RoundDone) =>
    /\ outs = Reverse(ins)
    /\ head = NULL /\ tail = NULL /\ linked = {}

\* C5 witness: every record was inserted at the front and pop has returned
\* them all.
C5_Witness ==
  /\ mode = <<"front", "pop">>
  /\ RoundDone
  /\ op = "pop"
  /\ Len(ins) = NumNodes

\* C6: remove of a linked node x leaves the sequence S with exactly x deleted
\* and the others in their order, head and tail at its ends; afterwards
\* neither fold visits x and check passes.
C6_Step ==
  op' = "remove" =>
    LET x == LinkOf(arg')
    IN  /\ x \in Range(S)
        /\ S' = Without(S, x)
        /\ head' = First(Without(S, x))
        /\ tail' = Last(Without(S, x))
        /\ (dlist_T_foldr(Mem, off, 0, <<>>))' = <<"ok", [i \in 1..Len(S') |-> GET_CONTAINER(S'[i], off)]>>
        /\ (dlist_T_foldl(Mem, off, 0, <<>>))[1]' = "ok"
        /\ arg' \notin Range((dlist_T_foldr(Mem, off, 0, <<>>))[2]')
        /\ arg' \notin Range((dlist_T_foldl(Mem, off, 0, <<>>))[2]')
        /\ (dlist_check(Mem).st)' = "ok"

\* C6: every remove of a linked node that returns deletes exactly that node
\* from S, as C6_Step describes it.
C6_Remove == [][(Usable /\ status' = "ok") => C6_Step]_vars

\* C6 witness: the middle one of three nodes has been removed; it still
\* points at its former neighbours, which are now head and tail.
C6_Witness ==
  /\ Usable
  /\ op = "remove"
  /\ Len(S) = 2
  /\ LinkOf(arg) \notin Range(S)
  /\ prev[LinkOf(arg)] = head /\ next[LinkOf(arg)] = tail

\* C7: pop and dequeue on an initialised empty list return NULL, do not end
\* the process and leave the handle and the nodes as they were.
C7_Step ==
  (op' \in {"pop", "dequeue"} /\ head = NULL /\ tail = NULL) =>
    /\ status' = "ok"
    /\ ret' = NULL
    /\ head' = NULL /\ tail' = NULL
    /\ next' = next /\ prev' = prev
    /\ life' = "live"

\* C7: every pop and dequeue on an empty live list returns NULL and changes
\* nothing, as C7_Step describes it.
C7_EmptyRemoval == [][Usable => C7_Step]_vars

\* C7 witness: dequeue has returned NULL on an empty list that held a record
\* before.
C7_Witness ==
  /\ Usable
  /\ op = "dequeue"
  /\ ret = NULL
  /\ head = NULL /\ tail = NULL
  /\ \E a \in LinkAddrs : next[a] \notin Uninit \/ prev[a] \notin Uninit

\* C8 as stated: whatever the offset of the link field, the typed pop,
\* dequeue, head and tail return the null record pointer on an empty list.
C8_Step ==
  (op' \in {"pop", "dequeue", "head", "tail"} /\ head = NULL /\ tail = NULL) =>
    (status' = "ok" /\ tret' = NULL)

\* C8 as stated: every typed pop, dequeue, head and tail on an empty live
\* list returns the null record pointer, for every offset of the link field.
C8_TypedNullOnEmpty == [][Usable => C8_Step]_vars

\* C9: destroy on a non-empty list ends in panic and writes no poison;
\* destroy on an empty initialised handle returns and poisons head and tail.
C9_Step ==
  op' = "destroy" =>
    IF linked # {}
    THEN /\ status' = "panic"
         /\ head' = head /\ tail' = tail
         /\ head' # POISON /\ tail' # POISON
    ELSE /\ status' = "ok"
         /\ head' = POISON /\ tail' = POISON

\* C9: every destroy of a live handle ends in panic without poison when the
\* list is non-empty and poisons head and tail when it is empty.
C9_Destroy == [][Usable => C9_Step]_vars

\* C9 witness: destroy was called on a list of two or more nodes and ended
\* in panic with the handle untouched.
C9_Witness ==
  /\ op = "destroy"
  /\ status = "panic"
  /\ Cardinality(linked) >= 2
  /\ head \in linked /\ tail \in linked /\ head # tail

RemoveOnPoisoned(x) ==
  IF prev[x] = NULL THEN {"assert"}
  ELSE IF ~Valid(prev[x]) THEN WildOutcomes
  ELSE IF next[x] = NULL THEN {"assert"}
  ELSE IF ~Valid(next[x]) THEN WildOutcomes
  ELSE {"ok"}

\* C10 as amended: between a successful destroy and the next init, destroy
\* ends in panic; enqueue, push, pushback, pop, dequeue and check dereference
\* the poison pointer; a fold does so unless its reducer terminates on the
\* first invocation, which is handed the poison record; head and tail return
\* normally with the poison value; remove never reads the handle's poison and
\* fails an assertion, dereferences a stale field or returns normally; none of
\* them changes the handle, and init makes it initialised and empty.
C10_Step ==
  /\ op' = "init" => (status' = "ok" /\ head' = NULL /\ tail' = NULL)
  /\ op' # "init" => (head' = POISON /\ tail' = POISON)
  /\ op' = "destroy" => status' = "panic"
  /\ op' \in {"enqueue", "push", "pushback", "pop", "dequeue", "check"} =>
       status' \in WildOutcomes
  /\ op' \in {"foldr", "foldl"} =>
       \/ status' \in WildOutcomes
       \/ status' = "ok" /\ visited' = <<GET_CONTAINER(POISON, off)>>
  /\ op' \in {"head", "tail"} =>
       /\ status' = "ok"
       /\ ret' = POISON
       /\ tret' = GET_CONTAINER(POISON, off)
  /\ op' = "remove" => status' \in RemoveOnPoisoned(LinkOf(arg'))

RecordsOf(name) ==
  LET fwd == [i \in 1..Len(S) |-> GET_CONTAINER(S[i], off)]
  IN  IF name = "foldl" THEN Reverse(fwd) ELSE fwd

\* C11: a fold over n elements from an empty accumulator whose reducer sets
\* the termination flag on its k-th invocation, 1 <= k <= n, has invoked it
\* exactly k times, on the first k records of its direction and on nothing
\* else; a reducer that never sets the flag (or would only after n) is
\* invoked exactly n times.
C11_Step ==
  (op' \in {"foldr", "foldl"} /\ fin' # <<>> /\ fin'[2] = <<>>) =>
    LET k == fin'[1]
        n == Len(S)
        calls == IF k \in 1..n THEN k ELSE n
    IN  /\ status' = "ok"
        /\ Len(visited') = calls
        /\ visited' = SubSeq(RecordsOf(op'), 1, calls)

\* C11: every fold of a fold run stops after exactly the k invocations its
\* reducer asks for, or after one invocation per element when the reducer
\* never sets the flag; the flag is clear whenever the reducer is entered.
C11_Termination == [][Usable => C11_Step]_vars

\* C11 witness: a forward fold over three elements has been stopped by the
\* reducer on its second invocation.
C11_Witness ==
  /\ Usable
  /\ op = "foldr"
  /\ fin = <<2, <<>>>>
  /\ Len(S) = 3
  /\ Len(visited) = 2

\* ----------------------------------------------------------------- C12

\* The records of a sequence of link nodes.
RecordsAt(q) == [i \in 1..Len(q) |-> GET_CONTAINER(q[i], off)]

\* C12: on every list the public operations produce, the fold that is never
\* terminated visits, forwards, the records from the head along next and,
\* backwards, those from the tail along prev; the two sequences are each
\* other's reverse and each holds every linked record exactly once.  A fold
\* that was called and visited as many records as are linked visited them in
\* that order.
C12_FoldOrder ==
  Usable =>
    LET fr == dlist_T_foldr(Mem, off, 0, <<>>)
        fl == dlist_T_foldl(Mem, off, 0, <<>>)
        in_list == {GET_CONTAINER(n, off) : n \in linked}
    IN  /\ fr = <<"ok", RecordsAt(Walk(head, next, LoopFuel))>>
        /\ fl = <<"ok", RecordsAt(Walk(tail, prev, LoopFuel))>>
        /\ fl[2] = Reverse(fr[2])
        /\ Range(fr[2]) = in_list /\ Len(fr[2]) = Cardinality(in_list)
        /\ Range(fl[2]) = in_list /\ Len(fl[2]) = Cardinality(in_list)
        /\ (op \in {"foldr", "foldl"} /\ Len(visited) = Cardinality(linked))
             => visited = RecordsOf(op)

\* C12 witness: the records 1, 2, 3 were enqueued in that order and the
\* forward fold has collected them as 3, 2, 1.
C12_Witness ==
  /\ Usable
  /\ op = "foldr"
  /\ Cardinality(linked) = 3
  /\ visited = <<3 * Stride, 2 * Stride, Stride>>

\* ----------------------------------------------------------------- C13

\* C13: check passes on every handle the public operations produce from
\* init, the empty and the one-element list among them: a call of check
\* never ends in a failed assertion, and in every state of a usable handle a
\* call of check would pass.
C13_CheckPasses ==
  /\ op = "check" => status = "ok"
  /\ Usable => dlist_check(Mem).st = "ok"

\* C13 witness: check has passed on a one-element list whose other nodes
\* were linked before and still point into it.
C13_Witness ==
  /\ Usable
  /\ op = "check"
  /\ Cardinality(linked) = 1
  /\ \A n \in LinkAddrs \ linked : next[n] \in linked \/ prev[n] \in linked

\* ----------------------------------------------------------------- C14

\* The nodes reached from the head of structure m along next.
ReachedIn(m) == Range(Walk(m.head, m.next, LoopFuel))

\* Well-formedness of a structure m as the claim words it: head is absent
\* iff tail is; head's prev is absent; every node reached from head along
\* next that has a next is that next's prev; the last node reached (the one
\* without a next) is tail.
WellFormedIn(m) ==
  /\ (m.head = NULL) <=> (m.tail = NULL)
  /\ m.head # NULL => m.prev[m.head] = NULL
  /\ \A n \in ReachedIn(m) : m.next[n] # NULL => m.prev[m.next[n]] = n
  /\ m.head # NULL => \E n \in ReachedIn(m) : m.next[n] = NULL /\ n = m.tail

\* The structures that differ from m in exactly one of head, tail, and the
\* next and prev fields of the nodes of its list.
CorruptionsOf(m) ==
  {[m EXCEPT !.head = v] : v \in Ptrs \ {m.head}}
  \cup {[m EXCEPT !.tail = v] : v \in Ptrs \ {m.tail}}
  \cup UNION {{[m EXCEPT !.next[n] = v] : v \in Ptrs \ {m.next[n]}}
                : n \in ReachedIn(m)}
  \cup UNION {{[m EXCEPT !.prev[n] = v] : v \in Ptrs \ {m.prev[n]}}
                : n \in ReachedIn(m)}

\* C14: on any assignment of head, tail and the link fields, a call of check
\* returns if the structure is well formed and fails an assertion if it is
\* not; and whichever single field of a well-formed non-empty list is given
\* another value, the structure is no longer well formed and check fails
\* an assertion on it.
C14_CheckIffWellFormed ==
  /\ op = "check" =>
       /\ status \in {"ok", "assert"}
       /\ status = "ok" <=> WellFormedIn(Mem)
  /\ (WellFormedIn(Mem) /\ head # NULL) =>
       \A c \in CorruptionsOf(Mem) :
         ~WellFormedIn(c) /\ dlist_check(c).st = "assert"

\* C14 witness: check has failed an assertion on a list that is well formed
\* but for its head's prev, which is not absent.
C14_Witness ==
  /\ op = "check"
  /\ status = "assert"
  /\ head # NULL
  /\ prev[head] # NULL
  /\ next[head] # NULL
  /\ WellFormedIn([Mem EXCEPT !.prev[head] = NULL])

\* ----------------------------------------------------------------- C19

\* C19: on any assignment of head, tail and the link fields, cyclic next
\* chains included, a call of check ends, by returning or by a failed
\* assertion, and its loop is entered for at most one node more than there
\* are nodes: no node after the CheckNodes-th passes its assertions.
C19_CheckTerminates ==
  /\ op = "check" => status \in {"ok", "assert"}
  /\ CheckLoop(Mem, head, NULL, CheckNodes) # "diverge"

\* C19 witness: check has run on a next chain that is a cycle through all
\* the nodes; each of them passed once and the assertion failed at the node
\* entered after them.
C19_Witness ==
  /\ op = "check"
  /\ status = "assert"
  /\ \A n \in CheckAddrs : next[n] # NULL
  /\ CheckLoop(Mem, head, NULL, CheckNodes - 1) = "diverge"

\* ----------------------------------------------------------------- C15

\* The accumulator after i invocations of the reducer func(k, ...) on the
\* first i of the records recs, each given what the one before returned and
\* the first given init.
RECURSIVE AccAfter(_, _, _, _)
AccAfter(k, init, recs, i) ==
  IF i = 0 THEN init
  ELSE func(k, recs[i], AccAfter(k, init, recs, i - 1), 0)[1]

\* The invocations, counted from 1, on which that reducer sets the flag.
Terminators(k, init, recs) ==
  {i \in 1..Len(recs) :
     func(k, recs[i], AccAfter(k, init, recs, i - 1), 0)[2] # 0}

\* The invocation that is the last of the fold: the first to set the flag,
\* or the one on the last record.
LastCall(k, init, recs) ==
  LET ts == Terminators(k, init, recs)
  IN  IF ts = {} THEN Len(recs)
      ELSE CHOOSE i \in ts : \A j \in ts : i <= j

\* C15: a fold of an empty list returns the initial accumulator it was
\* given; a fold of a non-empty list returns what the last invocation of
\* the reducer returned, each invocation having been given the value of the
\* one before it (the first the initial accumulator), and the last being
\* the terminating one when the reducer terminates the fold.
C15_Step ==
  (op' \in {"foldr", "foldl"} /\ fin' # <<>>) =>
    \A recs \in {RecordsOf(op')} :
      LET k    == fin'[1]
          init == fin'[2]
      IN  /\ status' = "ok"
          /\ recs = <<>> => visited' = init
          /\ visited' = AccAfter(k, init, recs, LastCall(k, init, recs))

\* C15: every fold of a fold run returns the accumulator C15_Step names.
C15_Accumulator == [][Usable => C15_Step]_vars

\* C15 witness: a backward fold over three elements, begun with a non-empty
\* accumulator, was terminated on its second invocation and returned the
\* accumulator of that invocation: the initial word, then the last and the
\* middle record.
C15_Witness ==
  /\ Usable
  /\ op = "foldl"
  /\ fin = <<3, <<WILD>>>>
  /\ Len(S) = 3
  /\ visited = <<WILD, GET_CONTAINER(S[3], off), GET_CONTAINER(S[2], off)>>

\* ----------------------------------------------------------------- C16

\* The handle and link fields a call result r leaves.
MemOf(r) == [head |-> r.head, tail |-> r.tail, next |-> r.next, prev |-> r.prev]

\* C16: an insertion writes both link fields of the node it inserts, next
\* with the old head (enqueue, push) or NULL (pushback) and prev with NULL
\* or the old tail; whatever the two fields held before, left over from an
\* earlier membership, the call leaves the handle and the fields it would
\* have left had the node come from malloc and never been linked; the node
\* is then the first (last) element of S and check passes.
C16_Step ==
  op' \in {"enqueue", "push", "pushback"} =>
    LET x    == LinkOf(arg')
        back == op' = "pushback"
    IN  /\ status' = "ok"
        /\ next'[x] = (IF back THEN NULL ELSE head)
        /\ prev'[x] = (IF back THEN tail ELSE NULL)
        /\ \A m \in {Mem}, m1 \in {Mem'}, g1, g2 \in Uninit :
             \A r \in {IF back
                       THEN dlist_pushback(
                              [m EXCEPT !.next[x] = g1, !.prev[x] = g2], x)
                       ELSE dlist_enqueue(
                              [m EXCEPT !.next[x] = g1, !.prev[x] = g2], x)} :
               r.st = "ok" /\ MemOf(r) = m1
        /\ S' = (IF back THEN Append(S, x) ELSE <<x>> \o S)
        /\ (dlist_check(Mem).st)' = "ok"

\* C16: every insertion by a caller who keeps the contract, of a node that
\* was in a list before as of one that never was, is as C16_Step says.
C16_Reinsert == [][Usable => C16_Step]_vars

\* C16 witness: a node has been enqueued into the empty list again: another
\* node, taken out since, still points at it from the time both were linked,
\* and the node is the whole list, both its fields NULL.
C16_Witness ==
  /\ Usable
  /\ op = "enqueue"
  /\ S = <<LinkOf(arg)>>
  /\ next[LinkOf(arg)] = NULL
  /\ prev[LinkOf(arg)] = NULL
  /\ \E y \in LinkAddrs \ linked : next[y] = LinkOf(arg) /\ prev[y] = NULL

\* ----------------------------------------------------------------- C18

\* C18: no call of a caller who keeps the contract ends in a failed
\* assertion, because on every usable handle the asserted conditions hold:
\* for enqueue, tail is absent when head is and the head's prev is absent;
\* for pushback, head is absent when tail is and the tail's next is absent;
\* for remove of any linked node, a node without prev is the head and a node
\* without next is the tail.
C18_AssertionsHold ==
  /\ status # "assert"
  /\ Usable =>
       /\ head = NULL => tail = NULL
       /\ head # NULL => prev[head] = NULL
       /\ tail = NULL => head = NULL
       /\ tail # NULL => next[tail] = NULL
       /\ \A x \in linked : /\ prev[x] = NULL => head = x
                            /\ next[x] = NULL => tail = x

\* C18 witness: remove has taken out the only element of a list, a node
\* without prev and without next, so that both its assertions were
\* evaluated, and returned.
C18_Witness ==
  /\ Usable
  /\ op = "remove"
  /\ linked = {}
  /\ head = NULL
  /\ next[LinkOf(arg)] = NULL
  /\ prev[LinkOf(arg)] = NULL

\* ----------------------------------------------------------------- C20

\* C20: pop, dequeue and remove leave both link fields of the node they
\* take out as they were while it was linked; of all the link fields they
\* write at most the next of that node's predecessor and the prev of its
\* successor, besides head and tail of the handle; on an empty list pop and
\* dequeue write nothing.
C20_Step ==
  op' \in {"pop", "dequeue", "remove"} =>
    LET x == IF op' = "remove" THEN LinkOf(arg') ELSE ret'
    IN  IF x = NULL
        THEN UNCHANGED <<head, tail, next, prev>>
        ELSE /\ next'[x] = next[x]
             /\ prev'[x] = prev[x]
             /\ \A n \in LinkAddrs : next'[n] # next[n] => n = prev[x]
             /\ \A n \in LinkAddrs : prev'[n] # prev[n] => n = next[x]

\* C20: every pop, dequeue and remove that returns writes no more than
\* C20_Step allows.
C20_Frame == [][(Usable /\ status' = "ok") => C20_Step]_vars

\* C20 witness: pop has returned a node that still points at the node that
\* is now the head, while that head's prev is NULL: adjacency holds between
\* linked nodes only.
C20_Witness ==
  /\ Usable
  /\ op = "pop"
  /\ ret \in LinkAddrs \ linked
  /\ head \in linked
  /\ next[ret] = head
  /\ prev[next[ret]] # ret

\* ----------------------------------------------------------------- C17

\* No thread is inside a call.
Quiescent == \A t \in Threads : thr[t].pc = "idle"

\* The list is sound: the structural checks of dlist_check pass and the
\* nodes reachable from head are exactly the nodes inserted, once each.
Sound ==
  /\ dlist_check(Mem).st = "ok"
  /\ Range(S) = linked
  /\ Len(S) = Cardinality(linked)

\* C17: when every call is made under the one mutex, no assertion of
\* enqueue or pushback fails, at most the holder of the mutex is inside a
\* call, and whenever the mutex is free no thread is inside a call and the
\* list is sound.  Without the mutex calls interleave field by field and
\* unsound lists are reached: C17_Witness.
C17_LockedIsSound ==
  guarded =>
    /\ status = "ok"
    /\ \A t \in Threads : thr[t].pc # "idle" => mutex = t
    /\ mutex = NULL => Quiescent /\ Sound

\* C17 witness: without the mutex, two calls on different nodes have both
\* returned and the list is unsound: a structural check fails or an
\* inserted node cannot be reached from head.
C17_Witness ==
  /\ ~guarded
  /\ status = "ok"
  /\ Quiescent
  /\ Cardinality(linked) = 2
  /\ ~Sound
  /\ Range(S) # linked

=============================================================================
